---- MODULE Spec2Model ----
(***************************************************************************)
(* Missing-value imputation as performed by Week_2.ipynb, section 2:       *)
(*   heart_data = pd.read_csv(..., header=None, names=cols)                *)
(*   heart_data.replace('?', np.nan, inplace=True)                         *)
(*   imputer = SimpleImputer(missing_values=np.nan, strategy=...,          *)
(*                           add_indicator=...)                            *)
(*   imputer = imputer.fit(heart_data)                                     *)
(*   heart_data_imputed = imputer.transform(heart_data)                    *)
(* The notebook's operations are calls into pandas and scikit-learn; each  *)
(* call is given the behaviour the called routine has.  Tables are kept    *)
(* column-major: a table is a sequence of columns, a column a sequence of  *)
(* cells.  Floating point numbers are modelled as exact rationals.         *)
(***************************************************************************)
EXTENDS Integers, Sequences, FiniteSets, TLC

VARIABLES raw, raw_new, params, pc, heart_data, new_data, imputer, out, out2, err, calls

vars == <<raw, raw_new, params, pc, heart_data, new_data, imputer, out, out2, err, calls>>

(* ---------------- bounds of the explored inputs ---------------- *)
(* cells (columns times rows) of a fitted csv file *)
MaxCells == 4
(* columns of the one-row csv file transformed in place of the fitted one *)
MaxNewCols == 2
(* rows of a single-column csv file *)
MaxColRows == 4

(* text fields that may occur in a csv file *)
Tokens == {"1", "?", "a"}
ColTokens == {"1", "2", "4", "?", "", "a", "b"}

(* ---------------- cells ---------------- *)
Num(n, d) == [k |-> "num", n |-> n, d |-> d, s |-> ""]
Str(s) == [k |-> "str", n |-> 0, d |-> 1, s |-> s]
Bool(b) == [k |-> "bool", n |-> IF b THEN 1 ELSE 0, d |-> 1, s |-> ""]
NaN == [k |-> "nan", n |-> 0, d |-> 1, s |-> ""]
None == [k |-> "none", n |-> 0, d |-> 1, s |-> ""]

IsMissing(c) == c = NaN

RECURSIVE Gcd(_, _)
Gcd(a, b) == IF b = 0 THEN a ELSE Gcd(b, a % b)

(* the rational n/d in lowest terms *)
Rat(n, d) == LET g == Gcd(n, d) IN IF g = 0 THEN Num(0, 1) ELSE Num(n \div g, d \div g)

RatAdd(x, y) == Rat(x.n * y.d + y.n * x.d, x.d * y.d)

(* float(text): the numerals that parse as numbers, and their value *)
IsNumeral(tok) == tok \in {"1", "2", "4"}
NumValue(tok) == CASE tok = "1" -> 1 [] tok = "2" -> 2 [] tok = "4" -> 4 [] OTHER -> 0

(* Python's ordering of the strings in use (by code point) *)
CodeOrder == <<"", "1", "2", "4", "?", "a", "b">>
StrOrd(s) == CHOOSE i \in 1..Len(CodeOrder) : CodeOrder[i] = s

(* a < b for two cells of one kind *)
Less(a, b) ==
    IF a.k = "str" /\ b.k = "str" THEN StrOrd(a.s) < StrOrd(b.s)
    ELSE a.n * b.d < b.n * a.d

(* ---------------- tables ---------------- *)
NRows(data) == IF Len(data) = 0 THEN 0 ELSE Len(data[1])
Indices(n) == [j \in 1..n |-> j]
NoFrame == [dtype |-> <<>>, data |-> <<>>]

(* the csv files of c columns and r rows *)
TablesOfShape(c, r, toks) == [1..c -> [1..r -> toks]]

RawTables(maxcells, toks) ==
    UNION {TablesOfShape(sh[1], sh[2], toks) :
             sh \in {x \in (1..maxcells) \X (1..maxcells) : x[1] * x[2] <= maxcells}}

(* pd.read_csv(header=None, names=cols): a column whose every field is a   *)
(* number or empty is numeric, empty fields being NaN; any other column is *)
(* of dtype object and keeps its fields as strings (empty fields NaN).     *)
ReadColumnNumeric(col) == \A i \in 1..Len(col) : IsNumeral(col[i]) \/ col[i] = ""

ReadCsv(csv) ==
    [dtype |-> [j \in 1..Len(csv) |->
                   IF ReadColumnNumeric(csv[j]) THEN "float64" ELSE "object"],
     data |-> [j \in 1..Len(csv) |-> [i \in 1..Len(csv[j]) |->
                   IF csv[j][i] = "" THEN NaN
                   ELSE IF ReadColumnNumeric(csv[j]) THEN Num(NumValue(csv[j][i]), 1)
                   ELSE Str(csv[j][i])]]]

(* heart_data.replace('?', np.nan, inplace=True) *)
Replace(df) ==
    [dtype |-> df.dtype,
     data |-> [j \in 1..Len(df.data) |-> [i \in 1..Len(df.data[j]) |->
                   IF df.data[j][i] = Str("?") THEN NaN ELSE df.data[j][i]]]]

(* ---------------- SimpleImputer ---------------- *)
Strategies == {"mean", "median", "most_frequent", "constant"}

(* the strategy names a caller may write, one of them not a strategy *)
StrategyNames == Strategies \cup {"mode"}

(* fill_value arguments given with strategy='constant' *)
FillValues == {Num(9, 1)}

(* Input validation of fit and transform.  mean and median ask for a float *)
(* array: every cell is converted with float(), which fails on text that   *)
(* is not a number.  most_frequent and constant take the table as it is: a *)
(* float array if every column is numeric, an object array otherwise.      *)
NeedsFloat(strategy) == strategy \in {"mean", "median"}

Convertible(c) == c.k # "str" \/ IsNumeral(c.s)

ToFloat(c) == IF c.k = "str" THEN Num(NumValue(c.s), 1) ELSE c

(* mean and median refuse object columns outright, whatever they hold *)
CanConvertByDtype(X) == \A j \in 1..Len(X.data) : X.dtype[j] = "float64"

CanConvert(X) ==
    \A j \in 1..Len(X.data) : \A i \in 1..Len(X.data[j]) : Convertible(X.data[j][i])

ValidateInput(strategy, X) ==
    LET n == Len(X.data)
        allNumeric == \A j \in 1..n : X.dtype[j] = "float64"
    IN  IF NeedsFloat(strategy)
        THEN IF CanConvert(X)
             THEN [ok |-> TRUE, kind |-> "float64",
                   data |-> [j \in 1..n |-> [i \in 1..Len(X.data[j]) |-> ToFloat(X.data[j][i])]]]
             ELSE [ok |-> FALSE, kind |-> "float64", data |-> <<>>]
        ELSE [ok |-> TRUE, kind |-> IF allNumeric THEN "float64" ELSE "object", data |-> X.data]

(* the non-missing cells of a column, in row order *)
Present(col) == SelectSeq(col, LAMBDA c : ~IsMissing(c))

RECURSIVE SumCells(_)
SumCells(s) == IF Len(s) = 0 THEN Num(0, 1) ELSE RatAdd(s[1], SumCells(Tail(s)))

(* the mean with the missing cells counted in the divisor *)
MeanOverAllRows(col) ==
    LET p == Present(col)
    IN  IF Len(p) = 0 THEN NaN
        ELSE LET t == SumCells(p) IN Rat(t.n, t.d * Len(col))

(* mean of the non-missing cells; NaN when there is none *)
Mean(col) ==
    LET p == Present(col)
    IN  IF Len(p) = 0 THEN NaN
        ELSE LET t == SumCells(p) IN Rat(t.n, t.d * Len(p))

(* number of cells of s that sort before position i (ties by position) *)
Rank(s, i) ==
    Cardinality({j \in 1..Len(s) : Less(s[j], s[i]) \/ (~Less(s[i], s[j]) /\ j < i)})

Sorted(s) == [r \in 1..Len(s) |-> s[CHOOSE i \in 1..Len(s) : Rank(s, i) = r - 1]]

(* median of the non-missing cells; NaN when there is none *)
Median(col) ==
    LET p == Sorted(Present(col))
        n == Len(p)
    IN  IF n = 0 THEN NaN
        ELSE IF n % 2 = 1 THEN p[(n + 1) \div 2]
        ELSE LET t == RatAdd(p[n \div 2], p[n \div 2 + 1]) IN Rat(t.n, t.d * 2)

Count(s, v) == Cardinality({i \in 1..Len(s) : s[i] = v})

(* the most frequent cell, the first met in row order on a tie *)
MostFrequentFirstMet(col) ==
    LET p == Present(col)
        top == {i \in 1..Len(p) : \A j \in 1..Len(p) : Count(p, p[j]) <= Count(p, p[i])}
    IN  IF Len(p) = 0 THEN NaN
        ELSE p[CHOOSE i \in top : \A j \in top : i <= j]

(* most frequent non-missing cell, the smallest of them when several share *)
(* the highest count; NaN when there is none                               *)
MostFrequent(col) ==
    LET p == Present(col)
        top == {i \in 1..Len(p) : \A j \in 1..Len(p) : Count(p, p[j]) <= Count(p, p[i])}
    IN  IF Len(p) = 0 THEN NaN
        ELSE p[CHOOSE i \in top : \A j \in top : ~Less(p[j], p[i])]

(* fill of strategy='constant': the fill_value argument.  Whether a column *)
(* without any value keeps this fill or is marked for removal differs      *)
(* between versions of the library (prm.drop_empty_constant).              *)
Constant(prm, col) ==
    IF prm.drop_empty_constant /\ Len(Present(col)) = 0 THEN NaN
    ELSE prm.fill_value

Statistic(prm, col) ==
    CASE prm.strategy = "mean" -> Mean(col)
      [] prm.strategy = "median" -> Median(col)
      [] prm.strategy = "most_frequent" -> MostFrequent(col)
      [] OTHER -> Constant(prm, col)

HasMissing(col) == \E i \in 1..Len(col) : IsMissing(col[i])

(* an indicator for every column, missing values or not *)
AllFeatures(data) == Indices(Len(data))

(* MissingIndicator(features="missing-only"): the columns with a missing   *)
(* cell in the fitted table, in column order                               *)
MissingFeatures(data) == SelectSeq(Indices(Len(data)), LAMBDA j : HasMissing(data[j]))

(* the indicator is fitted whatever add_indicator says *)
IndicatorFeaturesAlways(prm, data) == MissingFeatures(data)

IndicatorFeatures(prm, data) == IF prm.add_indicator THEN MissingFeatures(data) ELSE <<>>

NotFitted == [fitted |-> FALSE, statistics |-> <<>>, features |-> <<>>, n_features_in |-> 0]

(* a column without any value is an error of the statistic strategies *)
FitErrorOnEmptyColumn(prm, X) ==
    IF prm.strategy \notin Strategies THEN "invalid_strategy"
    ELSE IF ~ValidateInput(prm.strategy, X).ok THEN "non_numeric"
    ELSE IF prm.strategy # "constant" /\ \E j \in 1..Len(X.data) : Len(Present(X.data[j])) = 0
    THEN "empty_column"
    ELSE "none"

(* the error imputer.fit(X) raises, "none" if it raises none *)
FitError(prm, X) ==
    IF prm.strategy \notin Strategies THEN "invalid_strategy"
    ELSE IF ~ValidateInput(prm.strategy, X).ok THEN "non_numeric"
    ELSE "none"

Fitted(prm, X) ==
    LET V == ValidateInput(prm.strategy, X)
    IN  [fitted |-> TRUE,
         statistics |-> [j \in 1..Len(V.data) |-> Statistic(prm, V.data[j])],
         features |-> IndicatorFeatures(prm, V.data),
         n_features_in |-> Len(V.data)]

(* imputer.fit(X): the fitted imputer, or the error raised *)
FitResult(prm, X) ==
    LET e == FitError(prm, X)
    IN  [err |-> e, imputer |-> IF e = "none" THEN Fitted(prm, X) ELSE NotFitted]

NoOutput == [ok |-> FALSE, kind |-> "none", n_imputed |-> 0, data |-> <<>>]

(* a missing-indicator cell once stacked to an array of the given kind *)
IndicatorCell(kind, b) == IF kind = "float64" THEN Num(IF b THEN 1 ELSE 0, 1) ELSE Bool(b)

(* every column is kept, whatever its statistic *)
KeepAllColumns(statistics) == Indices(Len(statistics))

(* the columns transform keeps: those whose statistic is not NaN *)
KeptColumns(statistics) ==
    SelectSeq(Indices(Len(statistics)), LAMBDA j : ~IsMissing(statistics[j]))

(* the rows with a missing cell are left out *)
ImputeColumnDropRows(col, stat) == Present(col)

(* a column with its missing cells replaced by the statistic *)
ImputeColumn(col, stat) == [i \in 1..Len(col) |-> IF IsMissing(col[i]) THEN stat ELSE col[i]]

(* the statistic is looked up by the position among the kept columns *)
ImputedByPosition(statistics, data) ==
    LET keep == KeptColumns(statistics)
    IN  [q \in 1..Len(keep) |-> ImputeColumn(data[keep[q]], statistics[q])]

Imputed(statistics, data) ==
    LET keep == KeptColumns(statistics)
    IN  [q \in 1..Len(keep) |-> ImputeColumn(data[keep[q]], statistics[keep[q]])]

Indicator(features, kind, data) ==
    [q \in 1..Len(features) |-> [i \in 1..NRows(data) |->
        IndicatorCell(kind, IsMissing(data[features[q]][i]))]]

(* only a table with fewer columns than the fitted one is refused *)
TransformErrorLacksOnly(prm, imp, X) ==
    IF ~ValidateInput(prm.strategy, X).ok THEN "non_numeric"
    ELSE IF Len(X.data) < imp.n_features_in THEN "n_features"
    ELSE "none"

(* the error imputer.transform(X) raises, "none" if it raises none *)
TransformError(prm, imp, X) ==
    IF ~ValidateInput(prm.strategy, X).ok THEN "non_numeric"
    ELSE IF Len(X.data) # imp.n_features_in THEN "n_features"
    ELSE "none"

(* the indicator columns are stacked to the left of the imputed ones *)
TransformedIndicatorFirst(prm, imp, X) ==
    LET V == ValidateInput(prm.strategy, X)
        imputed == Imputed(imp.statistics, V.data)
    IN  [ok |-> TRUE, kind |-> V.kind, n_imputed |-> Len(imputed),
         data |-> Indicator(imp.features, V.kind, V.data) \o imputed]

Transformed(prm, imp, X) ==
    LET V == ValidateInput(prm.strategy, X)
        imputed == Imputed(imp.statistics, V.data)
    IN  [ok |-> TRUE, kind |-> V.kind, n_imputed |-> Len(imputed),
         data |-> imputed \o Indicator(imp.features, V.kind, V.data)]

(* an error leaves the columns imputed before it in the output *)
TransformResultPartial(prm, imp, X) ==
    LET e == TransformError(prm, imp, X)
    IN  [err |-> e,
         out |-> IF e = "none" THEN Transformed(prm, imp, X)
                 ELSE [ok |-> FALSE, kind |-> "object", n_imputed |-> 0,
                       data |-> Imputed([j \in 1..Len(X.data) |-> prm.fill_value], X.data)]]

(* imputer.transform(X): the output array, or the error raised.  Columns   *)
(* whose statistic is NaN are removed; the indicator columns of the        *)
(* features recorded by fit are stacked to the right of the imputed ones.  *)
TransformResult(prm, imp, X) ==
    LET e == TransformError(prm, imp, X)
    IN  [err |-> e, out |-> IF e = "none" THEN Transformed(prm, imp, X) ELSE NoOutput]

(* an output array seen as a table again *)
AsFrame(o) == [dtype |-> [j \in 1..Len(o.data) |-> o.kind], data |-> o.data]

(* ---------------- the notebook's steps ---------------- *)
(* SimpleImputer(missing_values=np.nan, strategy=..., add_indicator=...)   *)
ParamSets ==
    {[strategy |-> s, fill_value |-> None, add_indicator |-> a, drop_empty_constant |-> FALSE] :
        s \in StrategyNames \ {"constant"}, a \in BOOLEAN}
    \cup
    {[strategy |-> "constant", fill_value |-> f, add_indicator |-> a, drop_empty_constant |-> d] :
        f \in FillValues, a \in BOOLEAN, d \in BOOLEAN}

(* the transform calls made on one fitted imputer (the notebook makes two  *)
(* on heart_data), and a call that has not started                         *)
Callers == {1, 2}
NoCall == [pc |-> "idle", src |-> "none", X |-> [ok |-> FALSE, kind |-> "none", data |-> <<>>],
           out |-> NoOutput, err |-> "none"]

InitState ==
    /\ calls = [c \in Callers |-> NoCall]
    /\ pc = "start"
    /\ heart_data = NoFrame
    /\ new_data = NoFrame
    /\ imputer = NotFitted
    /\ out = NoOutput
    /\ out2 = NoOutput
    /\ err = "none"

(* csv files of up to MaxCells cells; the table that is transformed is the *)
(* fitted one (as in the notebook) or a one-row file                       *)
Init ==
    /\ raw \in RawTables(MaxCells, Tokens)
    /\ raw_new \in {raw} \cup UNION {TablesOfShape(c, 1, Tokens) : c \in 1..MaxNewCols}
    /\ params \in ParamSets
    /\ InitState

(* single-column csv files of up to MaxColRows rows, transformed themselves *)
InitCol ==
    /\ raw \in UNION {TablesOfShape(1, r, ColTokens) : r \in 1..MaxColRows}
    /\ raw_new = raw
    /\ params \in ParamSets
    /\ InitState

read_csv ==
    /\ pc = "start"
    /\ heart_data' = ReadCsv(raw)
    /\ new_data' = ReadCsv(raw_new)
    /\ pc' = "loaded"
    /\ UNCHANGED <<raw, raw_new, params, imputer, out, out2, err, calls>>

replace ==
    /\ pc = "loaded"
    /\ heart_data' = Replace(heart_data)
    /\ new_data' = Replace(new_data)
    /\ pc' = "cleaned"
    /\ UNCHANGED <<raw, raw_new, params, imputer, out, out2, err, calls>>

fit ==
    /\ pc = "cleaned"
    /\ LET r == FitResult(params, heart_data)
       IN  /\ imputer' = r.imputer
           /\ err' = r.err
           /\ pc' = IF r.err = "none" THEN "fitted" ELSE "fit_failed"
    /\ UNCHANGED <<raw, raw_new, params, heart_data, new_data, out, out2, calls>>

transform ==
    /\ pc = "fitted"
    /\ LET r == TransformResult(params, imputer, new_data)
       IN  /\ out' = r.out
           /\ err' = r.err
           /\ pc' = IF r.err = "none" THEN "transformed" ELSE "transform_failed"
    /\ UNCHANGED <<raw, raw_new, params, heart_data, new_data, imputer, out2, calls>>

(* imputer.transform applied once more, to its own output *)
transform_again ==
    /\ pc = "transformed"
    /\ LET r == TransformResult(params, imputer, AsFrame(out))
       IN  /\ out2' = r.out
           /\ err' = r.err
           /\ pc' = IF r.err = "none" THEN "transformed_again" ELSE "transform_again_failed"
    /\ UNCHANGED <<raw, raw_new, params, heart_data, new_data, imputer, out, calls>>

Next == read_csv \/ replace \/ fit \/ transform \/ transform_again

(* ---------------- several callers of one fitted imputer ---------------- *)
(* csv files of up to MaxCells cells and a second, one-cell file; every    *)
(* caller transforms one of the two tables                                 *)
InitShared ==
    /\ raw \in RawTables(MaxCells, Tokens)
    /\ raw_new \in {raw} \cup TablesOfShape(1, 1, Tokens)
    /\ params \in ParamSets
    /\ InitState

Table(src) == IF src = "heart_data" THEN heart_data ELSE new_data

(* the output array built from a validated input *)
StackOutput(imp, V) ==
    LET imputed == Imputed(imp.statistics, V.data)
    IN  [ok |-> TRUE, kind |-> V.kind, n_imputed |-> Len(imputed),
         data |-> imputed \o Indicator(imp.features, V.kind, V.data)]

(* the imputed cells are written into the table that was passed in *)
InputImputedInPlace(X, statistics) ==
    [dtype |-> X.dtype,
     data |-> [j \in 1..Len(X.data) |-> ImputeColumn(X.data[j], statistics[j])]]

(* SimpleImputer(copy=True), the default: transform works on a copy, the   *)
(* table passed in keeps its cells                                         *)
InputAfterTransform(X, statistics) == X

(* first half of imputer.transform(X): the input is validated and copied   *)
call_validate(c) ==
    /\ pc = "fitted"
    /\ calls[c].pc = "idle"
    /\ \E src \in {"heart_data", "new_data"} :
          LET e == TransformError(params, imputer, Table(src))
          IN  calls' = [calls EXCEPT ![c] =
                  IF e = "none"
                  THEN [pc |-> "validated", src |-> src,
                        X |-> ValidateInput(params.strategy, Table(src)),
                        out |-> NoOutput, err |-> "none"]
                  ELSE [pc |-> "failed", src |-> src, X |-> NoCall.X,
                        out |-> NoOutput, err |-> e]]
    /\ UNCHANGED <<raw, raw_new, params, pc, heart_data, new_data, imputer, out, out2, err>>

(* second half: the copy is imputed with the statistics of the imputer and *)
(* returned                                                                *)
call_impute(c) ==
    /\ pc = "fitted"
    /\ calls[c].pc = "validated"
    /\ calls' = [calls EXCEPT ![c].pc = "done", ![c].out = StackOutput(imputer, calls[c].X)]
    /\ heart_data' = IF calls[c].src = "heart_data"
                     THEN InputAfterTransform(heart_data, imputer.statistics) ELSE heart_data
    /\ new_data' = IF calls[c].src = "new_data"
                   THEN InputAfterTransform(new_data, imputer.statistics) ELSE new_data
    /\ UNCHANGED <<raw, raw_new, params, pc, imputer, out, out2, err>>

NextShared ==
    \/ read_csv
    \/ replace
    \/ fit
    \/ \E c \in Callers : call_validate(c)
    \/ \E c \in Callers : call_impute(c)

Spec == Init /\ [][Next]_vars

SpecCol == InitCol /\ [][Next]_vars

SpecShared == InitShared /\ [][NextShared]_vars

(* ---------------- properties ---------------- *)
AfterFit == pc \notin {"start", "loaded", "cleaned"}
FitSucceeded == AfterFit /\ pc # "fit_failed"
TransformSucceeded == pc \in {"transformed", "transformed_again", "transform_again_failed"}

(* the cell of the transformed table as the imputer reads it: mean and     *)
(* median read text as the number it spells                                *)
InputCell(j, i) ==
    IF NeedsFloat(params.strategy) /\ new_data.data[j][i].k = "str"
    THEN Num(NumValue(new_data.data[j][i].s), 1)
    ELSE new_data.data[j][i]

Truthy(c) == c \in {Num(1, 1), Bool(TRUE)}
Falsy(c) == c \in {Num(0, 1), Bool(FALSE)}

(* the columns of a table that hold at least one / no non-missing cell *)
EmptyColumns(df) == {j \in 1..Len(df.data) : \A i \in 1..Len(df.data[j]) : IsMissing(df.data[j][i])}
EligibleColumns(df) == {j \in 1..Len(df.data) : \E i \in 1..Len(df.data[j]) : IsMissing(df.data[j][i])}

(* the columns of the fitted table that transform keeps *)
KeptSet ==
    {j \in 1..Len(heart_data.data) :
        j \notin EmptyColumns(heart_data)
        \/ (params.strategy = "constant" /\ ~params.drop_empty_constant)}

(* the q-th smallest member of a set of column numbers *)
Nth(S, q) == CHOOSE j \in S : Cardinality({x \in S : x < j}) = q - 1

C2_RowsPreserved ==
    TransformSucceeded =>
        /\ \A q \in 1..Len(out.data) : Len(out.data[q]) = NRows(new_data.data)
        /\ \A q \in 1..out.n_imputed : \A i \in 1..NRows(new_data.data) :
              ~IsMissing(new_data.data[Nth(KeptSet, q)][i])
                  => out.data[q][i] = InputCell(Nth(KeptSet, q), i)
        /\ \A q \in (out.n_imputed + 1)..Len(out.data) : \A i \in 1..NRows(new_data.data) :
              Truthy(out.data[q][i])
                  <=> IsMissing(new_data.data[imputer.features[q - out.n_imputed]][i])

(* a transformed table with a row count other than the fitted table's and  *)
(* one with two rows that differ, one of them missing a cell               *)
C2_Witness ==
    /\ pc = "transformed"
    /\ NRows(new_data.data) = 1
    /\ NRows(heart_data.data) = 3
    /\ HasMissing(new_data.data[1])

(* C3: with add_indicator=true, transform appends exactly one indicator    *)
(* column per column that had a missing cell in the fitted table and for   *)
(* no other column; its value on a row is true iff the cell of the         *)
(* transformed table is missing; a column without missing cells at fit     *)
(* gets no indicator even when the transformed table has missing cells in  *)
(* it.                                                                     *)
C3_IndicatorColumns ==
    (TransformSucceeded /\ params.add_indicator) =>
        LET elig == EligibleColumns(heart_data)
            n == out.n_imputed
        IN  /\ Len(out.data) - n = Cardinality(elig)
            /\ \A q \in 1..Cardinality(elig) : \A i \in 1..NRows(new_data.data) :
                  /\ Truthy(out.data[n + q][i]) \/ Falsy(out.data[n + q][i])
                  /\ Truthy(out.data[n + q][i]) <=> IsMissing(new_data.data[Nth(elig, q)][i])

(* two fitted columns, one with and one without missing cells, and the     *)
(* transformed table has a missing cell in the one without                 *)
C3_Witness ==
    /\ pc = "transformed"
    /\ params.add_indicator
    /\ Len(heart_data.data) = 2
    /\ Cardinality(EligibleColumns(heart_data)) = 1
    /\ \E j \in 1..2 : j \notin EligibleColumns(heart_data) /\ HasMissing(new_data.data[j])

(* C4 as stated: the output has the original column count without         *)
(* indicators, and that count plus the number of eligible columns with     *)
(* them.                                                                   *)
C4_Original ==
    TransformSucceeded =>
        Len(out.data) = Len(new_data.data)
            + (IF params.add_indicator THEN Cardinality(EligibleColumns(heart_data)) ELSE 0)

(* C4: the output holds the columns of the fitted table that had at least  *)
(* one non-missing value (under constant every column, unless the library  *)
(* version removes valueless columns there too), in their original order   *)
(* and never more than the original count, followed when                   *)
(* add_indicator=true by one indicator column per eligible column in       *)
(* column order, and by nothing when add_indicator=false.                  *)
C4_ColumnCount ==
    TransformSucceeded =>
        /\ out.n_imputed = Cardinality(KeptSet)
        /\ out.n_imputed <= Len(new_data.data)
        /\ Len(out.data) = Cardinality(KeptSet)
              + (IF params.add_indicator THEN Cardinality(EligibleColumns(heart_data)) ELSE 0)
        /\ \A q \in 1..out.n_imputed : \A i \in 1..NRows(new_data.data) :
              out.data[q][i] = IF IsMissing(new_data.data[Nth(KeptSet, q)][i])
                               THEN imputer.statistics[Nth(KeptSet, q)]
                               ELSE InputCell(Nth(KeptSet, q), i)
        /\ \A q \in 1..(Len(out.data) - out.n_imputed) :
              imputer.features[q] = Nth(EligibleColumns(heart_data), q)

(* a fitted table with a column of missing cells only next to an eligible  *)
(* column that has a value, transformed with indicators                    *)
C4_Witness ==
    /\ pc = "transformed"
    /\ params.add_indicator
    /\ EmptyColumns(heart_data) # {}
    /\ EligibleColumns(heart_data) \ EmptyColumns(heart_data) # {}
    /\ Len(out.data) = 3

(* the number a cell of a loaded table stands for *)
CellNumber(c) == IF c.k = "str" THEN NumValue(c.s) ELSE c.n

RECURSIVE Total(_)
Total(col) ==
    IF Len(col) = 0 THEN 0
    ELSE (IF IsMissing(col[1]) THEN 0 ELSE CellNumber(col[1])) + Total(Tail(col))

NonMissingCount(col) == Cardinality({i \in 1..Len(col) : ~IsMissing(col[i])})

(* C5: under mean, the fill of a numeric column is the arithmetic mean of  *)
(* its non-missing values only ({1, 2, missing, 4} gives 7/3), and         *)
(* transform replaces exactly the missing cells with it while every other  *)
(* cell keeps its value (a number spelled as text is returned as that      *)
(* number).                                                                *)
C5_MeanOfPresent ==
    (params.strategy = "mean" /\ FitSucceeded) =>
        /\ \A j \in 1..Len(heart_data.data) :
              LET col == heart_data.data[j]
                  stat == imputer.statistics[j]
              IN  /\ NonMissingCount(col) > 0 =>
                        /\ stat.k = "num"
                        /\ stat.n * NonMissingCount(col) = Total(col) * stat.d
                  /\ raw[j] \in {<<"1", "2", "", "4">>, <<"1", "2", "?", "4">>} => stat = Num(7, 3)
        /\ TransformSucceeded =>
              \A q \in 1..out.n_imputed : \A i \in 1..NRows(new_data.data) :
                  LET c == new_data.data[Nth(KeptSet, q)][i]
                  IN  out.data[q][i] =
                          IF IsMissing(c) THEN imputer.statistics[Nth(KeptSet, q)]
                          ELSE IF c.k = "num" THEN c
                          ELSE Num(NumValue(c.s), 1)

(* the numeric column 1, 2, missing, 4 fitted and transformed under mean *)
C5_Witness ==
    /\ pc = "transformed"
    /\ params.strategy = "mean"
    /\ raw = << <<"1", "2", "", "4">> >>
    /\ heart_data.dtype = <<"float64">>
    /\ out.data[1] = <<Num(1, 1), Num(2, 1), Num(7, 3), Num(4, 1)>>

FirstIndex(col, v) == CHOOSE i \in 1..Len(col) : col[i] = v /\ \A k \in 1..(i - 1) : col[k] # v

(* C6 as stated: the most-frequent fill is the value with the highest      *)
(* count among the non-missing values, the first met in row order when     *)
(* several share that count ("b", "a", missing gives "b").                 *)
C6_Original ==
    (params.strategy = "most_frequent" /\ FitSucceeded) =>
        \A j \in 1..Len(heart_data.data) :
            LET col == heart_data.data[j]
                stat == imputer.statistics[j]
            IN  NonMissingCount(col) > 0 =>
                    /\ \E i \in 1..Len(col) : col[i] = stat
                    /\ \A i \in 1..Len(col) : ~IsMissing(col[i]) =>
                          /\ Count(col, col[i]) <= Count(col, stat)
                          /\ Count(col, col[i]) = Count(col, stat)
                                => FirstIndex(col, stat) <= FirstIndex(col, col[i])

(* C6: the most-frequent fill is the value with the highest count among    *)
(* the non-missing values, the smallest of them when several share that    *)
(* count ("a", "b", "a", missing gives "a"; "a", "b", missing gives "a";   *)
(* "b", "a", missing gives "a" too).                                       *)
C6_MostFrequentSmallest ==
    (params.strategy = "most_frequent" /\ FitSucceeded) =>
        \A j \in 1..Len(heart_data.data) :
            LET col == heart_data.data[j]
                stat == imputer.statistics[j]
            IN  /\ NonMissingCount(col) > 0 =>
                    /\ \E i \in 1..Len(col) : col[i] = stat
                    /\ \A i \in 1..Len(col) : ~IsMissing(col[i]) =>
                          /\ Count(col, col[i]) <= Count(col, stat)
                          /\ Count(col, col[i]) = Count(col, stat) => ~Less(col[i], stat)
                /\ raw[j] \in {<<"a", "b", "a", "?">>, <<"a", "b", "?">>, <<"b", "a", "?">>}
                      => stat = Str("a")

(* the tie "b", "a", missing fitted under most_frequent *)
C6_Witness ==
    /\ FitSucceeded
    /\ params.strategy = "most_frequent"
    /\ raw = << <<"b", "a", "?">> >>
    /\ imputer.statistics = <<Str("a")>>

(* a table holds text that is not a number *)
HasText(df) ==
    \E j \in 1..Len(df.data) : \E i \in 1..Len(df.data[j]) :
        df.data[j][i].k = "str" /\ ~IsNumeral(df.data[j][i].s)

(* C7 as stated: fit under mean, median or most-frequent fails with        *)
(* EmptyColumn and yields no fitted imputer whenever a column of the       *)
(* fitted table has no non-missing value; under constant it succeeds.      *)
C7_Original ==
    (AfterFit /\ params.strategy \in Strategies /\ EmptyColumns(heart_data) # {}) =>
        IF params.strategy = "constant"
        THEN FitSucceeded
        ELSE pc = "fit_failed" /\ err = "empty_column" /\ ~imputer.fitted

(* C7: a column without any non-missing value is no error of fit under    *)
(* any strategy: fit fails on such a table only for text that is not a     *)
(* number, and otherwise yields a fitted imputer whose statistic for that  *)
(* column is the missing sentinel (under constant the fill value, or the   *)
(* sentinel in library versions that remove such columns there too);       *)
(* transform then leaves those columns out.                                *)
C7_EmptyColumnFits ==
    (AfterFit /\ params.strategy \in Strategies /\ EmptyColumns(heart_data) # {}) =>
        /\ err # "empty_column"
        /\ pc = "fit_failed" => err = "non_numeric"
        /\ params.strategy \in {"most_frequent", "constant"} => FitSucceeded
        /\ FitSucceeded =>
              /\ imputer.fitted
              /\ \A j \in EmptyColumns(heart_data) :
                    imputer.statistics[j] =
                        IF params.strategy = "constant" /\ ~params.drop_empty_constant
                        THEN params.fill_value ELSE NaN
        /\ TransformSucceeded =>
              out.n_imputed = Cardinality((1..Len(heart_data.data)) \ (EmptyColumns(heart_data) \ KeptSet))

(* a table with a valueless column fitted and transformed under mean *)
C7_Witness ==
    /\ pc = "transformed"
    /\ params.strategy = "mean"
    /\ EmptyColumns(heart_data) # {}
    /\ out.n_imputed = Len(heart_data.data) - Cardinality(EmptyColumns(heart_data))
    /\ out.n_imputed > 0

NoMissing(df) == \A j \in 1..Len(df.data) : ~HasMissing(df.data[j])
ColumnRemoved == \E j \in 1..Len(imputer.statistics) : IsMissing(imputer.statistics[j])
TransformedTwice == pc \in {"transformed_again", "transform_again_failed"}

(* C9 as stated: transforming a table without missing cells returns it     *)
(* unchanged, and transforming the output of a transform again returns     *)
(* that output (add_indicator=false).                                      *)
C9_Original ==
    ~params.add_indicator =>
        /\ (TransformSucceeded /\ NoMissing(new_data)) => out.data = new_data.data
        /\ TransformedTwice => pc = "transformed_again" /\ out2 = out

(* C9: with add_indicator=false and a fitted imputer that removes no       *)
(* column (every fitted column had a value), transforming a table without  *)
(* missing cells returns its cells unchanged (under mean and median, text  *)
(* that spells a number as that number), and transforming the output of a  *)
(* transform again returns that output; when the imputer removes a column, *)
(* the second transform fails on the column count.                         *)
C9_Idempotent ==
    ~params.add_indicator =>
        /\ (TransformSucceeded /\ NoMissing(new_data) /\ ~ColumnRemoved) =>
              out.data = [j \in 1..Len(new_data.data) |->
                             [i \in 1..NRows(new_data.data) |-> InputCell(j, i)]]
        /\ TransformedTwice =>
              IF ColumnRemoved
              THEN pc = "transform_again_failed" /\ err = "n_features" /\ out2 = NoOutput
              ELSE pc = "transformed_again" /\ out2 = out

(* an imputed table transformed again *)
C9_Witness ==
    /\ pc = "transformed_again"
    /\ ~params.add_indicator
    /\ ~NoMissing(new_data)
    /\ Len(out.data) = 2
    /\ out2 = out

TransformAttempted == TransformSucceeded \/ pc = "transform_failed"

CleanedTable(src) == Replace(ReadCsv(IF src = "heart_data" THEN raw ELSE raw_new))
ImputerAfterFit == FitResult(params, CleanedTable("heart_data")).imputer

WithoutIndicator == [params EXCEPT !.add_indicator = FALSE]
FitWithoutIndicator == FitResult(WithoutIndicator, heart_data)
TransformWithoutIndicator ==
    TransformResult(WithoutIndicator, FitWithoutIndicator.imputer, new_data)

(* C13: add_indicator does not influence the imputed values: the           *)
(* non-indicator columns of the output of fit and transform with           *)
(* add_indicator=true are, cell for cell, the whole output of fit and      *)
(* transform with add_indicator=false on the same tables, and the two      *)
(* fail together.                                                          *)
C13_IndicatorLeavesValues ==
    (params.add_indicator /\ AfterFit) =>
        /\ FitSucceeded <=> FitWithoutIndicator.err = "none"
        /\ FitSucceeded => imputer.statistics = FitWithoutIndicator.imputer.statistics
        /\ TransformAttempted =>
              /\ TransformSucceeded <=> TransformWithoutIndicator.err = "none"
              /\ pc \in {"transformed", "transform_failed"} => err = TransformWithoutIndicator.err
              /\ TransformSucceeded =>
                    /\ out.kind = TransformWithoutIndicator.out.kind
                    /\ SubSeq(out.data, 1, out.n_imputed) = TransformWithoutIndicator.out.data

(* an output with indicator columns next to a column that had a missing    *)
(* cell filled                                                             *)
C13_Witness ==
    /\ pc = "transformed"
    /\ params.add_indicator
    /\ Len(out.data) > out.n_imputed
    /\ \E q \in 1..out.n_imputed : HasMissing(new_data.data[Nth(KeptSet, q)])
    /\ TransformWithoutIndicator.out.data # out.data

====
